---- MODULE Spec2Model ----
(***************************************************************************)
(* Model of the browser file converter (App component).                    *)
(*                                                                         *)
(* State: the React state `files` and `ready`, the position of the         *)
(* loadFFmpeg effect, and one convertFile invocation per accepted File     *)
(* object (its captured locals, the await it is suspended at, and the      *)
(* workspace names it has asked the engine to delete).                     *)
(*                                                                         *)
(* Strings that the code takes apart are kept in the parts the code uses:  *)
(* a file name is the sequence name.split(".") yields, a content type is   *)
(* <<major, minor>> of "major/minor", a workspace name is the tuple of the *)
(* template's pieces.                                                      *)
(***************************************************************************)
EXTENDS Integers, Sequences, FiniteSets, TLC

\* ------------------------------------------------------------------ bounds
\* Number of File objects dropped during a session.
MaxFiles == 2

\* ------------------------------------------------------------- input sets
\* Values Math.random().toString(36).substring(7) can produce.  The code
\* draws each id independently and compares it with nothing.
Ids == {"a", "b"}

\* Files the user drops: name.split(".") and the declared content type.
SampleFiles ==
    { [name |-> <<"photo", "heic">>, type |-> <<"image", "heic">>],
      [name |-> <<"clip">>,          type |-> <<"video", "mp4">>] }

\* Values the format <select> can send (a subset of its options).
SelectableFormats == {"jpg", "png"}

Fids == 1 .. MaxFiles

\* outputUrl of an entry that has none (the field is absent).
NoUrl == 0

NoConv ==
    [pc |-> "idle", id |-> "", outputFormat |-> "", isImage |-> FALSE,
     inputName |-> <<>>, outputName |-> <<>>, deleted |-> {}]

VARIABLES
    files,      \* useState<ProcessedFile[]>
    ready,      \* useState(false)
    loadPc,     \* position of loadFFmpeg
    nextFid,    \* number of File objects handed to onDrop so far
    conv,       \* convertFile invocations, by the File object of fileObj
    call        \* one application of a pure function of the module to an
                \* argument (used by the specifications of pure functions)

vars == <<files, ready, loadPc, nextFid, conv, call>>

\* no pure function is being applied
NoCall == [fn |-> "none"]

\* ---------------------------------------------------------------- helpers
\* file.type.startsWith("image/")
IsImage(type) == Len(type) >= 1 /\ type[1] = "image"

\* DefaultFormat with the branches swapped.
DefaultFormatWrong(type) == IF IsImage(type) THEN "mp4" ELSE "png"
\* isImage ? "png" : "mp4"
DefaultFormat(type) == IF IsImage(type) THEN "png" ELSE "mp4"

\* name.includes(".") ? name.split(".").pop() : "bin"
SafeExt(name) == IF Len(name) >= 2 THEN name[Len(name)] ELSE "bin"

\* `input_${id}.${safeExt}` and `output_${id}.${outputFormat}`
InputName(id, ext) == <<"input", id, ext>>
OutputName(id, fmt) == <<"output", id, fmt>>

\* SetStatus without the comparison of ids.
SetStatusOfAll(prev, id, status) ==
    [i \in 1 .. Len(prev) |-> [prev[i] EXCEPT !.status = status]]
\* prev.map((f) => f.id === id ? { ...f, status } : f)
SetStatus(prev, id, status) ==
    [i \in 1 .. Len(prev) |->
        IF prev[i].id = id THEN [prev[i] EXCEPT !.status = status] ELSE prev[i]]

\* prev.map((f) => f.id === id ? { ...f, status: "completed", outputUrl: url } : f)
SetCompleted(prev, id, url) ==
    [i \in 1 .. Len(prev) |->
        IF prev[i].id = id
        THEN [prev[i] EXCEPT !.status = "completed", !.outputUrl = url]
        ELSE prev[i]]

\* prev.map((f) => f.id === fileId ? { ...f, outputFormat: format } : f)
SetFormat(prev, id, format) ==
    [i \in 1 .. Len(prev) |->
        IF prev[i].id = id THEN [prev[i] EXCEPT !.outputFormat = format] ELSE prev[i]]

\* prev.filter((item) => item.id !== id)
RECURSIVE FilterOut(_, _)
FilterOut(prev, id) ==
    IF prev = <<>> THEN <<>>
    ELSE IF Head(prev).id = id THEN FilterOut(Tail(prev), id)
         ELSE <<Head(prev)>> \o FilterOut(Tail(prev), id)

\* ------------------------------------------------------------------- Init
Init ==
    /\ files = <<>>
    /\ ready = FALSE
    /\ loadPc = "coreURL"
    /\ nextFid = 0
    /\ conv = [c \in Fids |-> NoConv]
    /\ call = NoCall

\* ------------------------------------------------------------- loadFFmpeg
\* LoadCatch as it would be with setReady(true) moved past the try block.
LoadCatchSetsReady == loadPc' = "failed" /\ ready' = TRUE
\* catch (error) { console.error(...) }
LoadCatch == loadPc' = "failed" /\ ready' = ready

\* await toBlobURL(coreURL, "text/javascript")
ToBlobURLCore ==
    /\ loadPc = "coreURL"
    /\ \E ok \in BOOLEAN :
        IF ok THEN loadPc' = "wasmURL" /\ ready' = ready ELSE LoadCatch
    /\ UNCHANGED <<call, files, nextFid, conv>>

\* await toBlobURL(wasmURL, "application/wasm")
ToBlobURLWasm ==
    /\ loadPc = "wasmURL"
    /\ \E ok \in BOOLEAN :
        IF ok THEN loadPc' = "load" /\ ready' = ready ELSE LoadCatch
    /\ UNCHANGED <<call, files, nextFid, conv>>

\* await ffmpeg.load({...}); setReady(true)
FFmpegLoad ==
    /\ loadPc = "load"
    /\ \E ok \in BOOLEAN :
        IF ok THEN loadPc' = "done" /\ ready' = TRUE ELSE LoadCatch
    /\ UNCHANGED <<call, files, nextFid, conv>>

\* ----------------------------------------------------------------- onDrop
\* DropzoneRendered without the !ready branch of the render.
DropzoneAlwaysRendered == TRUE
\* The dropzone is rendered (and so onDrop reachable) only when ready.
DropzoneRendered == ready

\* the object onDrop's map callback returns for one File
NewEntry(file, id) ==
    [file |-> file,
     id |-> id,
     status |-> "pending",
     outputUrl |-> NoUrl,
     outputFormat |-> DefaultFormat(file.type)]

\* acceptedFiles.map(...), ids[i] being the i-th Math.random() token
NewFiles(acceptedFiles, ids) ==
    [i \in 1 .. Len(acceptedFiles) |-> NewEntry(acceptedFiles[i], ids[i])]

\* setFiles((prev) => [...prev, ...newFiles]).  The browser hands over new
\* File objects; fid is the object's identity, numbered in arrival order.
OnDrop ==
    /\ DropzoneRendered
    /\ \E n \in 1 .. (MaxFiles - nextFid) :
       \E dropped \in [1 .. n -> SampleFiles], ids \in [1 .. n -> Ids] :
          LET acceptedFiles ==
                [i \in 1 .. n |-> [fid |-> nextFid + i,
                                   name |-> dropped[i].name,
                                   type |-> dropped[i].type]]
          IN  /\ files' = files \o NewFiles(acceptedFiles, ids)
              /\ nextFid' = nextFid + n
    /\ UNCHANGED <<call, ready, loadPc, conv>>

\* ------------------------------------------------------------ convertFile
\* The convert button of an entry is rendered only while it is pending.
ConvertFile ==
    \E i \in 1 .. Len(files) :
        LET fileObj == files[i]
            c == fileObj.file.fid
            outputFormat == IF fileObj.outputFormat = "" THEN "png"
                            ELSE fileObj.outputFormat
        IN  /\ fileObj.status = "pending"
            /\ conv' = [conv EXCEPT ![c] =
                  [pc |-> "writeFile",
                   id |-> fileObj.id,
                   outputFormat |-> outputFormat,
                   isImage |-> IsImage(fileObj.file.type),
                   inputName |-> InputName(fileObj.id, SafeExt(fileObj.file.name)),
                   outputName |-> OutputName(fileObj.id, outputFormat),
                   deleted |-> {}]]
            /\ files' = SetStatus(files, fileObj.id, "converting")
            /\ UNCHANGED <<call, ready, loadPc, nextFid>>

\* catch (err) { setFiles(... status: "error" ...) } and on to finally
Catch(c) ==
    /\ conv' = [conv EXCEPT ![c].pc = "deleteInputAfterCatch"]
    /\ files' = SetStatus(files, conv[c].id, "error")

\* WriteFile going on to readFile without the exec in between.
WriteFileSkipsExec(c) ==
    /\ conv[c].pc = "writeFile"
    /\ \E outcome \in {"ok", "fetchFileRejects", "writeFileRejects"} :
        IF outcome = "ok"
        THEN /\ conv' = [conv EXCEPT ![c].pc = "readFile"]
             /\ files' = files
        ELSE Catch(c)
    /\ UNCHANGED <<call, ready, loadPc, nextFid>>

\* const fileData = await fetchFile(fileObj.file);
\* await ffmpeg.writeFile(inputName, fileData)
\* (fetchFile only reads the File; either await may reject.)
WriteFile(c) ==
    /\ conv[c].pc = "writeFile"
    /\ \E outcome \in {"ok", "fetchFileRejects", "writeFileRejects"} :
        IF outcome = "ok"
        THEN /\ conv' = [conv EXCEPT ![c].pc = "exec"]
             /\ files' = files
        ELSE Catch(c)
    /\ UNCHANGED <<call, ready, loadPc, nextFid>>

\* await ffmpeg.exec(args)
Exec(c) ==
    /\ conv[c].pc = "exec"
    /\ \E ok \in BOOLEAN :
        IF ok
        THEN /\ conv' = [conv EXCEPT ![c].pc = "readFile"]
             /\ files' = files
        ELSE Catch(c)
    /\ UNCHANGED <<call, ready, loadPc, nextFid>>

\* const data = await ffmpeg.readFile(outputName); ... the rest of the try
\* block is synchronous: the empty check, the Blob, its URL, setFiles.
\* data is what readFile gives: a rejection or a buffer.  The URL of the Blob is
\* named after the File it was made from.
ReadFile(c) ==
    /\ conv[c].pc = "readFile"
    /\ \E data \in {"rejects", "0 bytes", "1024 bytes"} :
        IF data # "rejects" /\ data # "0 bytes"
        THEN /\ conv' = [conv EXCEPT ![c].pc = "deleteInputAfterTry"]
             /\ files' = SetCompleted(files, conv[c].id, c)
        ELSE Catch(c)
    /\ UNCHANGED <<call, ready, loadPc, nextFid>>

\* DeleteInput with a rejection that reaches the entry and the caller.
DeleteInputPropagates(c) ==
    /\ conv[c].pc \in {"deleteInputAfterTry", "deleteInputAfterCatch"}
    /\ \E ok \in BOOLEAN :
        /\ conv' = [conv EXCEPT ![c].pc = IF ok THEN "deleteOutput" ELSE "rejected",
                                ![c].deleted = @ \cup {conv[c].inputName}]
        /\ files' = IF ok THEN files ELSE SetStatus(files, conv[c].id, "error")
    /\ UNCHANGED <<call, ready, loadPc, nextFid>>

\* finally { try { await ffmpeg.deleteFile(inputName); ...
\* a rejection goes to catch (e) {} and ends convertFile
DeleteInput(c) ==
    /\ conv[c].pc \in {"deleteInputAfterTry", "deleteInputAfterCatch"}
    /\ \E ok \in BOOLEAN :
        conv' = [conv EXCEPT ![c].pc = IF ok THEN "deleteOutput" ELSE "done",
                             ![c].deleted = @ \cup {conv[c].inputName}]
    /\ UNCHANGED <<call, files, ready, loadPc, nextFid>>

\* ... await ffmpeg.deleteFile(outputName); } catch (e) {} }
DeleteOutput(c) ==
    /\ conv[c].pc = "deleteOutput"
    /\ \E ok \in BOOLEAN :
        conv' = [conv EXCEPT ![c].pc = "done",
                             ![c].deleted = @ \cup {conv[c].outputName}]
    /\ UNCHANGED <<call, files, ready, loadPc, nextFid>>

\* ----------------------------------------------------- updateOutputFormat
\* f.outputFormat || (isImage ? "png" : "mp4")
CurrentFormat(f) ==
    IF f.outputFormat = "" THEN DefaultFormat(f.file.type) ELSE f.outputFormat

\* The <select> is rendered only for image entries that are pending; it
\* shows currentFormat and fires onChange when another option is chosen.
UpdateOutputFormat ==
    \E i \in 1 .. Len(files), format \in SelectableFormats :
        /\ IsImage(files[i].file.type)
        /\ files[i].status = "pending"
        /\ format # CurrentFormat(files[i])
        /\ files' = SetFormat(files, files[i].id, format)
        /\ UNCHANGED <<call, ready, loadPc, nextFid, conv>>

\* ---------------------------------------------------------- remove button
\* Remove as it would be if removing an entry abandoned the conversions
\* started under its id.
RemoveCancels ==
    \E i \in 1 .. Len(files) :
        /\ files' = FilterOut(files, files[i].id)
        /\ conv' = [c \in Fids |->
                       IF conv[c].id = files[i].id /\ conv[c].pc # "idle"
                       THEN [conv[c] EXCEPT !.pc = "done"]
                       ELSE conv[c]]
        /\ UNCHANGED <<call, ready, loadPc, nextFid>>

\* onClick={() => setFiles((prev) => prev.filter((item) => item.id !== f.id))}
Remove ==
    \E i \in 1 .. Len(files) :
        /\ files' = FilterOut(files, files[i].id)
        /\ UNCHANGED <<call, ready, loadPc, nextFid, conv>>

Next ==
    \/ ToBlobURLCore
    \/ ToBlobURLWasm
    \/ FFmpegLoad
    \/ OnDrop
    \/ ConvertFile
    \/ \E c \in Fids : WriteFile(c)
    \/ \E c \in Fids : Exec(c)
    \/ \E c \in Fids : ReadFile(c)
    \/ \E c \in Fids : DeleteInput(c)
    \/ \E c \in Fids : DeleteOutput(c)
    \/ UpdateOutputFormat
    \/ Remove

Spec == Init /\ [][Next]_vars

\* Every engine call eventually returns: an await of convertFile that is
\* pending is eventually resolved or rejected.  Nothing is assumed of the
\* user or of loadFFmpeg.
EngineReturns ==
    \A c \in Fids :
        /\ WF_vars(WriteFile(c))
        /\ WF_vars(Exec(c))
        /\ WF_vars(ReadFile(c))
        /\ WF_vars(DeleteInput(c))
        /\ WF_vars(DeleteOutput(c))

FairSpec == Spec /\ EngineReturns

\* ================================================================ claims
StatusStep(s, t) ==
    \/ s = t
    \/ s = "pending" /\ t = "converting"
    \/ s = "converting" /\ t \in {"completed", "error"}

\* positions inside the try block, and inside the finally block
TryPcs == {"writeFile", "exec", "readFile"}
CleanupPcs == {"deleteInputAfterTry", "deleteInputAfterCatch", "deleteOutput"}

Tracked(c) == \E i \in DOMAIN files : files[i].file.fid = c
EntryOf(c) == files[CHOOSE i \in DOMAIN files : files[i].file.fid = c]

\* C1: every step takes every entry that stays tracked along
\* pending -> converting -> {completed, error}: its status stays or moves one
\* step forward, never back and never out of completed or error.
C1_StatusMonotonic ==
    [][\A i \in DOMAIN files, j \in DOMAIN files' :
          files[i].file.fid = files'[j].file.fid
              => StatusStep(files[i].status, files'[j].status)]_vars

\* C2: when a conversion has left its try block and not yet begun cleanup,
\* the entry it was started on, if still tracked, is completed with an
\* output handle if write, exec and read succeeded with non-empty bytes (the
\* try block ran to its end), and is error without an output handle if
\* one of them failed or the bytes were empty (the catch block ran).
C2_ConvertOutcome ==
    \A c \in Fids :
        /\ (conv[c].pc = "deleteInputAfterTry" /\ Tracked(c)) =>
              EntryOf(c).status = "completed" /\ EntryOf(c).outputUrl # NoUrl
        /\ (conv[c].pc = "deleteInputAfterCatch" /\ Tracked(c)) =>
              EntryOf(c).status = "error" /\ EntryOf(c).outputUrl = NoUrl

\* C3: a finished conversion has asked the engine to delete both its input
\* name and its output name.
C3_CleanupBothAttempted ==
    \A c \in Fids :
        conv[c].pc = "done" =>
            conv[c].deleted = {conv[c].inputName, conv[c].outputName}

\* C4: a step of a conversion's cleanup (a deleteFile resolving or rejecting)
\* leaves the tracked list (every status and output handle) as it was, and
\* convertFile goes on to the next deletion or returns normally.
C4_CleanupNeverChangesEntry ==
    [][\A c \in Fids :
          (conv[c].pc \in CleanupPcs /\ conv'[c] # conv[c])
              => /\ files' = files
                 /\ conv'[c].pc \in {"deleteOutput", "done"}]_vars

\* C4 witness: a conversion that succeeded, whose first deleteFile rejected,
\* has returned and its entry is still completed with its own output.
C4_Witness ==
    \E c \in Fids :
        /\ conv[c].pc = "done"
        /\ conv[c].deleted = {conv[c].inputName}
        /\ Tracked(c)
        /\ EntryOf(c).status = "completed"
        /\ EntryOf(c).outputUrl = c

\* C5: the requested format of an entry that has left pending never changes.
C5_FormatFrozenAfterStart ==
    [][\A i \in DOMAIN files, j \in DOMAIN files' :
          (files[i].file.fid = files'[j].file.fid /\ files[i].status # "pending")
              => files'[j].outputFormat = files[i].outputFormat]_vars

\* C6: while ready is false no conversion has been started and no entry is
\* tracked, so no writeFile, exec or readFile is pending or issued.
C6_NoConversionUnlessReady ==
    ~ready => /\ files = <<>>
              /\ \A c \in Fids : conv[c].pc = "idle"

\* C6 witness: a conversion is between its engine calls (and ready is true).
C6_Witness ==
    /\ ready
    /\ \E c \in Fids : conv[c].pc \in TryPcs

\* C7: ready is true only after ffmpeg.load succeeded and never reverts; the
\* load is not retried once it has succeeded or failed; after a failure ready
\* is false, no file has been accepted and no conversion started.
C7_LoadOnceNoRetry ==
    /\ [](ready <=> loadPc = "done")
    /\ [](loadPc = "failed" =>
            /\ nextFid = 0
            /\ files = <<>>
            /\ \A c \in Fids : conv[c].pc = "idle")
    /\ [][ready => ready']_vars
    /\ [][(loadPc \in {"done", "failed"}) => loadPc' = loadPc]_vars

\* C7 witness: the load has failed.
C7_Witness == loadPc = "failed" /\ ~ready

\* C8: when a conversion whose entry is no longer tracked ends its try block
\* (resolves or fails), the tracked list is unchanged.
C8_RemovedConversionHasNoEffect ==
    [][\A c \in Fids :
          (/\ conv[c].pc \in TryPcs
           /\ conv'[c].pc \in {"deleteInputAfterTry", "deleteInputAfterCatch"}
           /\ ~Tracked(c))
              => files' = files]_vars

\* C9: the ids of the tracked entries are pairwise distinct.
C9_IdsPairwiseDistinct ==
    \A i, j \in DOMAIN files : i # j => files[i].id # files[j].id

\* C10: a drop of n files appends n entries to the end of the tracked list,
\* the k-th for the k-th file, each pending, without output handle, with
\* format png for an image/ type and mp4 otherwise; earlier entries are kept.
C10_AcceptAppends ==
    [][nextFid' # nextFid =>
          LET n == nextFid' - nextFid
              old == Len(files)
          IN  /\ n >= 1
              /\ Len(files') = old + n
              /\ SubSeq(files', 1, old) = files
              /\ \A k \in 1 .. n :
                    LET e == files'[old + k] IN
                    /\ e.file.fid = nextFid + k
                    /\ e.status = "pending"
                    /\ e.outputUrl = NoUrl
                    /\ e.outputFormat =
                          IF e.file.type[1] = "image" THEN "png" ELSE "mp4"]_vars

\* C10 witness: an image file and, after it, a video file have been
\* accepted; both entries are pending with their default formats.
C10_Witness ==
    /\ Len(files) >= 2
    /\ \E i, j \in DOMAIN files :
          /\ i < j
          /\ files[i].file.fid < files[j].file.fid
          /\ IsImage(files[i].file.type) /\ ~IsImage(files[j].file.type)
          /\ files[i].status = "pending" /\ files[j].status = "pending"
          /\ files[i].outputFormat = "png" /\ files[j].outputFormat = "mp4"
          /\ files[i].outputUrl = NoUrl /\ files[j].outputUrl = NoUrl

\* a convertFile invocation that has started and not yet returned
InFlight(c) == conv[c].pc \in TryPcs \cup CleanupPcs

\* the workspace names a conversion writes, reads and deletes
WorkspaceNames(c) == {conv[c].inputName, conv[c].outputName}

\* C11: two conversions in flight at the same time for distinct tracked
\* entries use disjoint sets of workspace names.
C11_WorkspaceNamesDisjoint ==
    \A c, d \in Fids :
        (c # d /\ InFlight(c) /\ InFlight(d) /\ Tracked(c) /\ Tracked(d))
            => WorkspaceNames(c) \cap WorkspaceNames(d) = {}

\* ------------------------------------------------------------ getMimeType
\* A format string is the sequence of its characters.
UpperCase ==
    {"A", "B", "C", "E", "F", "G", "H", "I", "J", "M", "N", "O", "P", "R",
     "S", "T", "U", "V", "W"}

\* the lower/upper case pairs of the letters the modelled strings use
LowerOf ==
    [ch \in UpperCase |->
        CASE ch = "A" -> "a" [] ch = "B" -> "b" [] ch = "C" -> "c"
          [] ch = "E" -> "e" [] ch = "F" -> "f" [] ch = "G" -> "g"
          [] ch = "H" -> "h" [] ch = "I" -> "i" [] ch = "J" -> "j"
          [] ch = "M" -> "m" [] ch = "N" -> "n" [] ch = "O" -> "o"
          [] ch = "P" -> "p" [] ch = "R" -> "r" [] ch = "S" -> "s"
          [] ch = "T" -> "t" [] ch = "U" -> "u" [] ch = "V" -> "v"
          [] ch = "W" -> "w"]

\* String.prototype.toLowerCase
ToLowerCase(str) ==
    [i \in 1 .. Len(str) |-> IF str[i] \in UpperCase THEN LowerOf[str[i]] ELSE str[i]]

\* const IMAGE_FORMATS = [...] (value and mime)
IMAGE_FORMATS ==
    << [value |-> <<"j", "p", "g">>,      mime |-> "image/jpeg"],
       [value |-> <<"j", "p", "e", "g">>, mime |-> "image/jpeg"],
       [value |-> <<"p", "n", "g">>,      mime |-> "image/png"],
       [value |-> <<"w", "e", "b", "p">>, mime |-> "image/webp"],
       [value |-> <<"g", "i", "f">>,      mime |-> "image/gif"],
       [value |-> <<"b", "m", "p">>,      mime |-> "image/bmp"],
       [value |-> <<"t", "i", "f", "f">>, mime |-> "image/tiff"],
       [value |-> <<"t", "i", "f">>,      mime |-> "image/tiff"],
       [value |-> <<"a", "v", "i", "f">>, mime |-> "image/avif"],
       [value |-> <<"i", "c", "o">>,      mime |-> "image/x-icon"] >>

\* Array.prototype.find: the first element whose value is key, if any
FindFormat(key) ==
    LET hits == {i \in DOMAIN IMAGE_FORMATS : IMAGE_FORMATS[i].value = key}
    IN  IF hits = {} THEN 0 ELSE CHOOSE i \in hits : \A j \in hits : i <= j

\* const mimeMap: Record<string, string> = {...} holds the same pairs as
\* IMAGE_FORMATS.  It is an object literal, so mimeMap[key] also finds what
\* Object.prototype defines; of those names only these two are all lower
\* case, and both values are truthy and are not strings.
ObjectPrototypeKeys ==
    { <<"c", "o", "n", "s", "t", "r", "u", "c", "t", "o", "r">>,
      <<"_", "_", "p", "r", "o", "t", "o", "_", "_">> }

\* mimeMap[key]
MimeMapGet(key) ==
    IF FindFormat(key) # 0 THEN IMAGE_FORMATS[FindFormat(key)].mime
    ELSE IF key \in ObjectPrototypeKeys THEN "[inherited from Object.prototype]"
    ELSE "undefined"

\* const getMimeType = (format: string): string => ...
GetMimeType(format) ==
    LET key == ToLowerCase(format)
    IN  IF FindFormat(key) # 0 THEN IMAGE_FORMATS[FindFormat(key)].mime
        ELSE IF MimeMapGet(key) # "undefined" THEN MimeMapGet(key)
        ELSE "image/png"

\* the ways of writing one lower-case character
CharVariants(ch) == {ch} \cup {up \in UpperCase : LowerOf[up] = ch}

\* every way of writing a lower-case word in mixed case
RECURSIVE CaseVariants(_)
CaseVariants(word) ==
    IF word = <<>> THEN {<<>>}
    ELSE {<<ch>> \o rest : ch \in CharVariants(Head(word)),
                           rest \in CaseVariants(Tail(word))}

\* format strings getMimeType is applied to: the table's values and "mp4"
\* in every mix of cases, the empty string, and other words
MimeInputs ==
    UNION {CaseVariants(IMAGE_FORMATS[i].value) : i \in DOMAIN IMAGE_FORMATS}
    \cup CaseVariants(<<"m", "p", "4">>)
    \cup { <<>>,
           <<"h", "e", "i", "c">>,
           <<"s", "v", "g">>,
           <<"c", "o", "n", "s", "t", "r", "u", "c", "t", "o", "r">>,
           <<"C", "o", "n", "s", "t", "r", "u", "c", "t", "o", "r">> }

\* the state of App with nothing dropped, and one pending application
InitCall(calls) ==
    /\ files = <<>>
    /\ ready = FALSE
    /\ loadPc = "coreURL"
    /\ nextFid = 0
    /\ conv = [c \in Fids |-> NoConv]
    /\ call \in calls

InitMime ==
    InitCall({[fn |-> "getMimeType", arg |-> f, done |-> FALSE, result |-> ""] :
                 f \in MimeInputs})

ApplyGetMimeType ==
    /\ call.fn = "getMimeType"
    /\ ~call.done
    /\ call' = [call EXCEPT !.done = TRUE, !.result = GetMimeType(call.arg)]
    /\ UNCHANGED <<files, ready, loadPc, nextFid, conv>>

SpecMime == InitMime /\ [][ApplyGetMimeType]_vars

\* the MIME types of the enumerated table, as the claim lists them
ClaimedMimeTable ==
    { << <<"j", "p", "g">>, "image/jpeg" >>,      << <<"j", "p", "e", "g">>, "image/jpeg" >>,
      << <<"p", "n", "g">>, "image/png" >>,       << <<"w", "e", "b", "p">>, "image/webp" >>,
      << <<"g", "i", "f">>, "image/gif" >>,       << <<"b", "m", "p">>, "image/bmp" >>,
      << <<"t", "i", "f", "f">>, "image/tiff" >>, << <<"t", "i", "f">>, "image/tiff" >>,
      << <<"a", "v", "i", "f">>, "image/avif" >>, << <<"i", "c", "o">>, "image/x-icon" >> }

\* C12: getMimeType(f) equals getMimeType(lower-cased f); it is the table's
\* MIME type when lower-cased f is in the table and "image/png" for every
\* other string.
C12_GetMimeType ==
    (call.fn = "getMimeType" /\ call.done) =>
        LET key == ToLowerCase(call.arg)
            rows == {row \in ClaimedMimeTable : row[1] = key}
        IN  /\ call.result = GetMimeType(key)
            /\ \A row \in rows : call.result = row[2]
            /\ rows = {} => call.result = "image/png"

\* the entries a conversion's setFiles calls match all have status st
DecidedAs(c, fs, st) ==
    \A j \in DOMAIN fs : fs[j].id = conv[c].id => fs[j].status = st

\* C13: a conversion moves through its engine calls in the order
\* writeFile -> exec -> readFile -> deleteFile(input) -> deleteFile(output):
\* exec is awaited only after writeFile resolved, readFile only after exec
\* resolved, and the first deleteFile is issued in the step that sets the
\* status to completed (after readFile) or to error (after a failure);
\* no name is deleted while the conversion is in its try block.
C13_EngineCallOrder ==
    [][\A c \in Fids :
          LET pc == conv[c].pc
              pcNext == conv'[c].pc
          IN  /\ pcNext # pc =>
                    \/ pc = "idle" /\ pcNext = "writeFile"
                    \/ pc = "writeFile" /\ pcNext = "exec"
                    \/ pc = "exec" /\ pcNext = "readFile"
                    \/ /\ pc = "readFile"
                       /\ pcNext = "deleteInputAfterTry"
                       /\ DecidedAs(c, files', "completed")
                    \/ /\ pc \in TryPcs
                       /\ pcNext = "deleteInputAfterCatch"
                       /\ DecidedAs(c, files', "error")
                    \/ /\ pc \in {"deleteInputAfterTry", "deleteInputAfterCatch"}
                       /\ pcNext \in {"deleteOutput", "done"}
                    \/ pc = "deleteOutput" /\ pcNext = "done"
              /\ conv'[c].deleted # conv[c].deleted => pc \in CleanupPcs]_vars

\* C13 witness: a conversion has gone through all five engine calls and its
\* entry is completed.
C13_Witness ==
    \E c \in Fids :
        /\ conv[c].pc = "done"
        /\ conv[c].deleted = WorkspaceNames(c)
        /\ Tracked(c)
        /\ EntryOf(c).status = "completed"

\* C14: in every state an entry carries an output handle exactly when its
\* status is completed: pending, converting and error entries carry none and
\* every completed entry carries one.
C14_OutputHandleIffCompleted ==
    \A i \in DOMAIN files :
        (files[i].outputUrl # NoUrl) <=> (files[i].status = "completed")

\* ------------------------------------------------- the arguments of exec
\* An argument is a tuple of pieces, as a workspace name is; an argument
\* written as a literal in the code has one piece.
Lit(str) == <<str>>

\* ["jpg", "jpeg", "webp"]
QualityFormats == {"jpg", "jpeg", "webp"}

\* ExecArgs with "webp" missing from the list the quality pair is pushed for.
ExecArgsNoWebp(isImage, inputName, outputFormat, outputName) ==
    IF isImage
    THEN LET args0 == <<Lit("-i"), inputName>>
             args1 == IF outputFormat \in QualityFormats \ {"webp"}
                      THEN args0 \o <<Lit("-q:v"), Lit("2")>>
                      ELSE args0
         IN  Append(args1, outputName)
    ELSE <<Lit("-i"), inputName, Lit("-c:v"), Lit("libx264"), Lit("-preset"),
           Lit("ultrafast"), Lit("-crf"), Lit("23"), Lit("-c:a"), Lit("aac"),
           outputName>>

\* if (isImage) { const args = ["-i", inputName];
\*                if ([...].includes(outputFormat)) args.push("-q:v", "2");
\*                args.push(outputName); exec(args) }
\* else exec(["-i", inputName, "-c:v", "libx264", ..., outputName])
ExecArgs(isImage, inputName, outputFormat, outputName) ==
    IF isImage
    THEN LET args0 == <<Lit("-i"), inputName>>
             args1 == IF outputFormat \in QualityFormats
                      THEN args0 \o <<Lit("-q:v"), Lit("2")>>
                      ELSE args0
         IN  Append(args1, outputName)
    ELSE <<Lit("-i"), inputName, Lit("-c:v"), Lit("libx264"), Lit("-preset"),
           Lit("ultrafast"), Lit("-crf"), Lit("23"), Lit("-c:a"), Lit("aac"),
           outputName>>

\* Values of fileObj.outputFormat || "png": the options of the <select>,
\* the video default, and a string that is neither.
ArgFormats ==
    {"jpg", "jpeg", "png", "webp", "gif", "bmp", "tiff", "ico", "avif", "tga",
     "mp4", "xyz"}

\* Values of safeExt.
ArgExts == {"heic", "mp4", "bin"}

\* The locals of convertFile at the exec call, for every entry it can be
\* started on.
ArgInputs ==
    {[isImage |-> im, inputName |-> InputName(id, ext), outputFormat |-> fmt,
      outputName |-> OutputName(id, fmt)] :
        im \in BOOLEAN, id \in Ids, ext \in ArgExts, fmt \in ArgFormats}

InitArgs ==
    InitCall({[fn |-> "exec", arg |-> a, done |-> FALSE, result |-> <<>>] :
                 a \in ArgInputs})

\* convertFile building args and calling ffmpeg.exec(args)
BuildExecArgs ==
    /\ call.fn = "exec"
    /\ ~call.done
    /\ call' = [call EXCEPT !.done = TRUE,
                            !.result = ExecArgs(call.arg.isImage, call.arg.inputName,
                                                call.arg.outputFormat,
                                                call.arg.outputName)]
    /\ UNCHANGED <<files, ready, loadPc, nextFid, conv>>

SpecArgs == InitArgs /\ [][BuildExecArgs]_vars

\* C15: the arguments passed to exec are, for an image entry, "-i" and the
\* input name, then "-q:v" "2" exactly when the format is jpg, jpeg or webp,
\* then the output name; for a non-image entry they are the fixed pipeline
\* -i input -c:v libx264 -preset ultrafast -crf 23 -c:a aac output, whatever
\* the format.
C15_ExecArgs ==
    (call.fn = "exec" /\ call.done) =>
        LET a == call.arg
            args == call.result
            quality == a.outputFormat = "jpg" \/ a.outputFormat = "jpeg"
                           \/ a.outputFormat = "webp"
        IN  /\ (a.isImage /\ quality) =>
                  args = <<Lit("-i"), a.inputName, Lit("-q:v"), Lit("2"), a.outputName>>
            /\ (a.isImage /\ ~quality) =>
                  args = <<Lit("-i"), a.inputName, a.outputName>>
            /\ ~a.isImage =>
                  /\ Len(args) = 11
                  /\ args[1] = Lit("-i")       /\ args[2] = a.inputName
                  /\ args[3] = Lit("-c:v")     /\ args[4] = Lit("libx264")
                  /\ args[5] = Lit("-preset")  /\ args[6] = Lit("ultrafast")
                  /\ args[7] = Lit("-crf")     /\ args[8] = Lit("23")
                  /\ args[9] = Lit("-c:a")     /\ args[10] = Lit("aac")
                  /\ args[11] = a.outputName

C15_Witness ==
    /\ call.fn = "exec"
    /\ call.done
    /\ call.arg.isImage
    /\ call.arg.outputFormat = "webp"
    /\ Len(call.result) = 5

\* C16: if every engine call eventually returns, every tracked entry that is
\* converting is eventually completed, error or no longer tracked, and every
\* conversion in flight eventually returns after asking the engine to delete
\* its input name, whether or not its entry has been removed meanwhile.
C16_NoStuckConversion ==
    \A c \in Fids :
        /\ (Tracked(c) /\ EntryOf(c).status = "converting")
              ~> (~Tracked(c) \/ EntryOf(c).status \in {"completed", "error"})
        /\ InFlight(c)
              ~> (conv[c].pc = "done" /\ conv[c].inputName \in conv[c].deleted)

\* an entry has been removed while its conversion is inside the try block
C16_Witness ==
    \E c \in Fids : ~Tracked(c) /\ conv[c].pc \in TryPcs

\* the step appends entries and leaves the ones already tracked as they were
Appended ==
    /\ Len(files') > Len(files)
    /\ SubSeq(files', 1, Len(files)) = files

\* the step keeps every entry in its place, with its file and id, and
\* leaves the entries whose id is not `id` as they were
OnlyTouched(id) ==
    /\ Len(files') = Len(files)
    /\ \A i \in DOMAIN files :
          /\ files'[i].id = files[i].id
          /\ files'[i].file = files[i].file
          /\ files[i].id # id => files'[i] = files[i]

\* the step takes out the entries whose id is `id`, keeps the others as
\* they were and in their order, and does nothing else
OnlyRemoved(id) ==
    LET Other(f) == f.id # id
    IN  /\ files' = SelectSeq(files, Other)
        /\ UNCHANGED <<ready, loadPc, nextFid, conv>>

C18_VideoFormatFixed ==
    \A i \in DOMAIN files :
        ~IsImage(files[i].file.type) => files[i].outputFormat = "mp4"

\* ---------------------------------------------------------- download link
\* f.status === "completed" && f.outputUrl
DownloadRendered(f) == f.status = "completed" /\ f.outputUrl # NoUrl

\* f.file.name.split(".").slice(0, -1): the segments but the last
AllButLast(name) == SubSeq(name, 1, Len(name) - 1)

\* `converted_${f.file.name.split(".").slice(0, -1).join(".")}.${currentFormat}`
\* kept as the template's pieces, the joined segments being one piece
DownloadName(f) == <<"converted_", AllButLast(f.file.name), CurrentFormat(f)>>

\* the name without its last extension: a name with no dot has none
Basename(name) == IF Len(name) >= 2 THEN SubSeq(name, 1, Len(name) - 1) ELSE name

\* C19: the download name offered for a completed entry is "converted_",
\* the file name without its last extension, ".", and the entry's format,
\* also for a file name with no dot.
C19_DownloadName ==
    \A i \in DOMAIN files :
        DownloadRendered(files[i]) =>
            DownloadName(files[i]) =
                <<"converted_", Basename(files[i].file.name), files[i].outputFormat>>

\* C20: for every completed entry, the format captured by the conversion
\* that produced its output equals the format stored in the entry.
C20_UsedFormatIsStoredFormat ==
    \A i \in DOMAIN files :
        DownloadRendered(files[i]) =>
            conv[files[i].outputUrl].outputFormat = CurrentFormat(files[i])
====
